---------------------------- MODULE Spec2Model ----------------------------
(***************************************************************************)
(* A model of the Genesis DB Rust client (src/src/client.rs).              *)
(*                                                                         *)
(* Bytes are the integers 0..255 and text is a sequence of Unicode code    *)
(* points, so that String::from_utf8_lossy, str::trim, str::find and the   *)
(* serde_json parsers are modelled by what they do to the characters.      *)
(*                                                                         *)
(* The specifications:                                                     *)
(*   Spec     one observe_events session: the transport cuts the response  *)
(*            body into chunks, the consumer pulls items one at a time;    *)
(*   SpecLive Spec with weak fairness of its steps;                        *)
(*   SpecPair two observe_events sessions and calls on one client;         *)
(*   SpecApi  the request/response operations and their status mapping;    *)
(*   SpecNew  Client::new and Client::from_env.                            *)
(***************************************************************************)
EXTENDS Integers, Sequences, FiniteSets, TLC

(***************************************************************************)
(* Characters                                                              *)
(***************************************************************************)
LF == 10
QUOTE == 34
COMMA == 44
COLON == 58
BACKSLASH == 92
LBRACE == 123
RBRACE == 125
\* U+FFFD REPLACEMENT CHARACTER, what from_utf8_lossy substitutes
REPLACEMENT == 65533

\* char::is_whitespace (the Unicode White_Space property), used by str::trim
IsWhitespace(c) ==
    \/ c \in 9..13
    \/ c \in {32, 133, 160, 5760, 8232, 8233, 8239, 8287, 12288}
    \/ c \in 8192..8202

\* the whitespace serde_json skips between tokens: space, \t, \n, \r
IsJsonWhitespace(c) == c \in {32, 9, 10, 13}

(***************************************************************************)
(* String::from_utf8_lossy on one chunk.  One- and two-byte sequences are  *)
(* decoded; every byte that does not belong to a complete valid sequence   *)
(* in THIS chunk becomes U+FFFD.  (Lead bytes of three- and four-byte      *)
(* sequences, 0xE0..0xF4, are outside the byte alphabet of the bodies.)    *)
(* A lead byte 0xC2..0xDF is never a continuation byte 0x80..0xBF, so      *)
(* what a byte decodes to depends on its neighbours only, and the scan     *)
(* from left to right is the concatenation of DecodeAt over the indices.   *)
(***************************************************************************)
IsLead2(b) == b \in 194..223
IsContinuation(b) == b \in 128..191

DecodeAt(bytes, i) ==
    LET b == bytes[i] IN
    IF b < 128 THEN <<b>>
    ELSE IF IsLead2(b)
         THEN IF i < Len(bytes) /\ IsContinuation(bytes[i + 1])
              THEN <<(b - 192) * 64 + (bytes[i + 1] - 128)>>
              ELSE <<REPLACEMENT>>
    ELSE IF IsContinuation(b) /\ i > 1 /\ IsLead2(bytes[i - 1])
         THEN <<>>
    ELSE <<REPLACEMENT>>

RECURSIVE DecodeRange(_, _, _)
DecodeRange(bytes, lo, hi) ==
    IF lo > hi THEN <<>>
    ELSE IF lo = hi THEN DecodeAt(bytes, lo)
    ELSE LET mid == (lo + hi) \div 2 IN
         DecodeRange(bytes, lo, mid) \o DecodeRange(bytes, mid + 1, hi)

FromUtf8Lossy(bytes) == DecodeRange(bytes, 1, Len(bytes))

(***************************************************************************)
(* str helpers                                                             *)
(***************************************************************************)
\* str::rfind in the place of str::find: the index of the last c in s
FindLast(s, c) ==
    LET hits == {i \in 1..Len(s) : s[i] = c} IN
    IF hits = {} THEN 0 ELSE CHOOSE i \in hits : \A j \in hits : j <= i

\* str::find('\n'): the 1-based index of the first c in s, 0 for None
Find(s, c) ==
    LET hits == {i \in 1..Len(s) : s[i] = c} IN
    IF hits = {} THEN 0 ELSE CHOOSE i \in hits : \A j \in hits : i <= j

RECURSIVE TrimStart(_)
TrimStart(s) ==
    IF s /= <<>> /\ IsWhitespace(s[1]) THEN TrimStart(Tail(s)) ELSE s

RECURSIVE TrimEnd(_)
TrimEnd(s) ==
    IF s /= <<>> /\ IsWhitespace(s[Len(s)])
    THEN TrimEnd(SubSeq(s, 1, Len(s) - 1))
    ELSE s

\* str::trim
Trim(s) == TrimEnd(TrimStart(s))

\* str::starts_with
StartsWith(s, p) == Len(s) >= Len(p) /\ SubSeq(s, 1, Len(p)) = p

\* "data: "
DataPrefix == <<100, 97, 116, 97, 58, 32>>

(***************************************************************************)
(* serde_json on the texts the bodies can contain: a JSON text that is an  *)
(* object whose members are strings without escapes, with JSON whitespace  *)
(* allowed between the tokens and nothing but whitespace after the value.  *)
(* Any other text over the alphabet of the bodies is not JSON at all, or   *)
(* is rejected at the same place by serde_json.                            *)
(*                                                                         *)
(* The parser reads s one character at a time.  Its state is [phase, key,   *)
(* val, acc]: key and val are the member being read, acc the members read,  *)
(* and phase names what is expected next:                                   *)
(*   "open"   '{'                  "first"  '"' of a key, or '}'           *)
(*   "key"    '"' of a key         "inkey"  inside a key                   *)
(*   "colon"  ':'                  "value"  '"' of a value                 *)
(*   "inval"  inside a value       "next"   ',' or '}'                     *)
(*   "end"    end of text          "fail"   the text is rejected           *)
(* The result is [ok, members]: members is the sequence of <<key, value>>  *)
(* pairs in the order they appear.                                         *)
(***************************************************************************)
\* the result of a parse
Parsed(ok, members) == [ok |-> ok, members |-> members]

ParseFail(s) == Parsed(FALSE, <<>>)

ParseState(phase, key, val, acc) ==
    [phase |-> phase, key |-> key, val |-> val, acc |-> acc]

\* the state after the character c is read in the state st
ParseChar(st, c) ==
    CASE st.phase = "fail" -> st
      [] st.phase = "inkey" ->
           IF c = QUOTE THEN ParseState("colon", st.key, st.val, st.acc)
           ELSE IF c = BACKSLASH \/ c < 32
                THEN ParseState("fail", <<>>, <<>>, <<>>)
           ELSE ParseState("inkey", Append(st.key, c), <<>>, st.acc)
      [] st.phase = "inval" ->
           IF c = QUOTE
           THEN ParseState("next", <<>>, <<>>, Append(st.acc, <<st.key, st.val>>))
           ELSE IF c = BACKSLASH \/ c < 32
                THEN ParseState("fail", <<>>, <<>>, <<>>)
           ELSE ParseState("inval", st.key, Append(st.val, c), st.acc)
      [] st.phase \notin {"fail", "inkey", "inval"} /\ IsJsonWhitespace(c) -> st
      [] st.phase = "open" /\ c = LBRACE -> ParseState("first", <<>>, <<>>, st.acc)
      [] st.phase = "first" /\ c = RBRACE -> ParseState("end", <<>>, <<>>, st.acc)
      [] st.phase \in {"first", "key"} /\ c = QUOTE ->
           ParseState("inkey", <<>>, <<>>, st.acc)
      [] st.phase = "colon" /\ c = COLON ->
           ParseState("value", st.key, st.val, st.acc)
      [] st.phase = "value" /\ c = QUOTE ->
           ParseState("inval", st.key, st.val, st.acc)
      [] st.phase = "next" /\ c = COMMA -> ParseState("key", <<>>, <<>>, st.acc)
      [] st.phase = "next" /\ c = RBRACE -> ParseState("end", <<>>, <<>>, st.acc)
      [] OTHER -> ParseState("fail", <<>>, <<>>, <<>>)

\* the state after s[lo..hi] is read from the state st, left to right: the
\* characters of the left half, then those of the right half.  The state
\* between the halves is a value computed once, which is what taking it from
\* a singleton set says.
RECURSIVE ParseMembers(_, _, _, _)
ParseMembers(s, lo, hi, st) ==
    IF lo > hi THEN st
    ELSE IF lo = hi THEN ParseChar(st, s[lo])
    ELSE CHOOSE r \in
           { ParseMembers(s, mid + 1, hi, q) :
               mid \in {(lo + hi) \div 2},
               q \in {ParseMembers(s, lo, (lo + hi) \div 2, st)} } : TRUE

\* the end of the text: only whitespace may follow the value
ParseEnd(s, st) ==
    IF st.phase = "end" THEN Parsed(TRUE, st.acc) ELSE ParseFail(s)

ParseObject(s) ==
    CHOOSE r \in
      { ParseEnd(t, st) :
          t \in {s},
          st \in {ParseMembers(s, 1, Len(s), ParseState("open", <<>>, <<>>, <<>>))} } : TRUE

\* The keys of a member list
Keys(members) == {members[k][1] : k \in 1..Len(members)}

\* The value serde_json::Map holds for key: a later member replaces an earlier one
RECURSIVE LastValue(_, _, _)
LastValue(members, key, k) ==
    IF k = 0 THEN <<>>
    ELSE IF members[k][1] = key THEN <<members[k][2]>>
    ELSE LastValue(members, key, k - 1)

\* serde_json::from_str::<Value>: [ok, members, len], len being the number of
\* entries of the map
AsValue(p) ==
    [ok      |-> p.ok,
     members |-> p.members,
     len     |-> Cardinality(Keys(p.members))]

FromStrValue(s) == AsValue(ParseObject(s))

ValueGet(v, key) == LastValue(v.members, key, Len(v.members))


(***************************************************************************)
(* CloudEvent (src/src/types.rs) and its derived Deserialize               *)
(***************************************************************************)
KeyId == <<105, 100>>
KeySource == <<115, 111, 117, 114, 99, 101>>
KeyType == <<116, 121, 112, 101>>
KeySubject == <<115, 117, 98, 106, 101, 99, 116>>
KeyTime == <<116, 105, 109, 101>>
KeyData == <<100, 97, 116, 97>>
KeySpecversion == <<115, 112, 101, 99, 118, 101, 114, 115, 105, 111, 110>>
KeyDatacontenttype ==
    <<100, 97, 116, 97, 99, 111, 110, 116, 101, 110, 116, 116, 121, 112, 101>>
KeyPayload == <<112, 97, 121, 108, 111, 97, 100>>

\* default_spec_version(): "1.0"
default_spec_version == <<49, 46, 48>>

RequiredFields == {KeyId, KeySource, KeyType, KeySubject}
CloudEventFields ==
    RequiredFields \cup {KeyTime, KeyData, KeySpecversion, KeyDatacontenttype}

Occurrences(members, key) ==
    Cardinality({k \in 1..Len(members) : members[k][1] = key})

\* The visitor serde derives for CloudEvent, on the members m of an object:
\* [ok, event].  A field given twice and a required field left out are errors;
\* members with other names are ignored.  Option fields are <<>> (None) or
\* <<v>> (Some(v)).
Field(m, key) == LastValue(m, key, Len(m))

VisitMap(m) ==
    IF \/ \E f \in CloudEventFields : Occurrences(m, f) > 1
       \/ \E g \in RequiredFields : Occurrences(m, g) = 0
    THEN [ok |-> FALSE, event |-> <<>>]
    ELSE [ok |-> TRUE,
          event |-> <<[id              |-> Field(m, KeyId)[1],
                       source          |-> Field(m, KeySource)[1],
                       event_type      |-> Field(m, KeyType)[1],
                       subject         |-> Field(m, KeySubject)[1],
                       time            |-> Field(m, KeyTime),
                       data            |-> Field(m, KeyData),
                       specversion     |-> IF Field(m, KeySpecversion) = <<>>
                                           THEN default_spec_version
                                           ELSE Field(m, KeySpecversion)[1],
                       datacontenttype |-> Field(m, KeyDatacontenttype)]>>]

DeserializeCloudEvent(p) ==
    IF p.ok THEN VisitMap(p.members) ELSE [ok |-> FALSE, event |-> <<>>]

\* serde_json::from_str::<CloudEvent>
FromStrCloudEvent(s) ==
    CHOOSE r \in {DeserializeCloudEvent(p) : p \in {ParseObject(s)}} : TRUE

(***************************************************************************)
(* The body of the inner loop of observe_events, for one trimmed line      *)
(***************************************************************************)
\* the text handed to serde_json: the line without one leading "data: "
JsonStr(line) ==
    IF StartsWith(line, DataPrefix)
    THEN SubSeq(line, Len(DataPrefix) + 1, Len(line))
    ELSE line

\* the comparison with the empty payload inverted
HeartbeatValue_NonEmptyPayload(parsed) ==
    /\ parsed.ok
    /\ ValueGet(parsed, KeyPayload) /= <<>>
    /\ ValueGet(parsed, KeyPayload) /= << <<>> >>
    /\ parsed.len = 1

\* parsed.get("payload") == Some(&Value::String(String::new()))
\*   && parsed.as_object().map(|o| o.len()) == Some(1)
HeartbeatValue(parsed) ==
    /\ parsed.ok
    /\ ValueGet(parsed, KeyPayload) = << <<>> >>
    /\ parsed.len = 1

IsHeartbeat(json_str) ==
    \E parsed \in {FromStrValue(json_str)} : HeartbeatValue(parsed)

\* match serde_json::from_str::<CloudEvent>(json_str): the item yielded.
\* An item is [kind, event, at]; at, the place of the line, is set by the loop.
EventItem(r) ==
    IF r.ok
    THEN [kind |-> "Ok", event |-> r.event, at |-> 0]
    ELSE [kind |-> "JsonError", event |-> <<>>, at |-> 0]

\* a line that does not parse is skipped without a word
JsonItem_SkipErrors(json_str) ==
    IF IsHeartbeat(json_str) \/ ~FromStrCloudEvent(json_str).ok
    THEN <<>>
    ELSE <<EventItem(FromStrCloudEvent(json_str))>>

JsonItem(json_str) ==
    IF IsHeartbeat(json_str)
    THEN <<>>
    ELSE <<EventItem(FromStrCloudEvent(json_str))>>

\* the test for the empty line left out
LineItem_ParseEmpty(line) == JsonItem(JsonStr(line))

\* What one trimmed line makes the stream yield: <<>> (continue) or <<item>>
LineItem(line) ==
    IF line = <<>> THEN <<>> ELSE JsonItem(JsonStr(line))

\* while let Some(newline_idx) = buffer.find('\n') { ... }, run from the top of
\* the loop to the first yield, or to the exit of the loop when no newline is
\* left.  base counts the characters already split off the buffer.  The result
\* is [buffer, item, consumed]: item is <<>> when the loop ended.
RECURSIVE InnerLoop(_, _)

\* break in the place of continue: a line that yields nothing ends the loop
Iteration_BreakOnSkip(rest, base, it) ==
    [buffer   |-> rest,
     item     |-> IF it = <<>> THEN <<>> ELSE <<[it[1] EXCEPT !.at = base]>>,
     consumed |-> base]

\* the end of one iteration: it is what the line yields, rest the new buffer
Iteration(rest, base, it) ==
    IF it = <<>>
    THEN InnerLoop(rest, base)
    ELSE [buffer   |-> rest,
          item     |-> <<[it[1] EXCEPT !.at = base]>>,
          consumed |-> base]

\* let line = buffer[..newline_idx].trim(); buffer = buffer[newline_idx + 1..]
\* The line, the new buffer and what the line yields are values computed
\* once, which is what taking them from singleton sets says.
SplitAt(buf, base, newline_idx) ==
    IF newline_idx = 0
    THEN [buffer |-> buf, item |-> <<>>, consumed |-> base]
    ELSE CHOOSE r \in
           { Iteration(rest, base + newline_idx, it) :
               rest \in {SubSeq(buf, newline_idx + 1, Len(buf))},
               it \in {LineItem(line) :
                         line \in {Trim(SubSeq(buf, 1, newline_idx - 1))}} } : TRUE

InnerLoop(buf, base) == SplitAt(buf, base, Find(buf, LF))

(***************************************************************************)
(* The response bodies of the live endpoint.  A body is up to MaxLines     *)
(* newline-terminated lines drawn from Lines, followed by a last segment   *)
(* with no newline drawn from Tails.                                       *)
(***************************************************************************)
MaxLines == 2
\* the transport delivers 1..MaxChunk bytes at a time, or all that remains
MaxChunk == 3

\* {"id":"1","source":"s","type":"t","subject":"/x"}
EventBytes1 ==
    <<123, 34, 105, 100, 34, 58, 34, 49, 34, 44, 34, 115, 111, 117, 114, 99,
      101, 34, 58, 34, 115, 34, 44, 34, 116, 121, 112, 101, 34, 58, 34, 116,
      34, 44, 34, 115, 117, 98, 106, 101, 99, 116, 34, 58, 34, 47, 120, 34,
      125>>
\* {"id":"é","source":"s","type":"t","subject":"/x"}, é being 0xC3 0xA9
EventBytes2 ==
    <<123, 34, 105, 100, 34, 58, 34, 195, 169, 34, 44, 34, 115, 111, 117, 114,
      99, 101, 34, 58, 34, 115, 34, 44, 34, 116, 121, 112, 101, 34, 58, 34,
      116, 34, 44, 34, 115, 117, 98, 106, 101, 99, 116, 34, 58, 34, 47, 120,
      34, 125>>
\* {"payload":""}
HeartbeatBytes ==
    <<123, 34, 112, 97, 121, 108, 111, 97, 100, 34, 58, 34, 34, 125>>
\* U+00A0 NO-BREAK SPACE in UTF-8: whitespace for str::trim, not for serde_json
NbspBytes == <<194, 160>>

Lines ==
    { <<>>,
      NbspBytes,
      EventBytes1,
      EventBytes2,
      HeartbeatBytes,
      DataPrefix,
      DataPrefix \o EventBytes1,
      DataPrefix \o HeartbeatBytes }

Tails == { <<>>, EventBytes1 }

RECURSIVE Terminated(_)
Terminated(ls) ==
    IF ls = <<>> THEN <<>> ELSE Head(ls) \o <<LF>> \o Terminated(Tail(ls))

Bodies ==
    { Terminated(ls) \o t :
        ls \in UNION { [1..n -> Lines] : n \in 0..MaxLines }, t \in Tails }

\* the lengths the next chunk can have when n bytes remain
ChunkLens(n) == { k \in 1..n : k <= MaxChunk \/ k = n }

(***************************************************************************)
(* State                                                                   *)
(***************************************************************************)
VARIABLES
    body,       \* the bytes of the response body (what byte_stream carries)
    pos,        \* how many of them byte_stream has delivered
    buffer,     \* observe_events: buffer
    pc,         \* where the stream! generator is suspended:
                \*   "none"    no stream exists
                \*   "start"   created, not polled yet
                \*   "await"   inside next(), at byte_stream.next().await
                \*   "yielded" at a yield of the inner loop
                \*   "failed"  at the yield of Err(RequestError)
                \*   "done"    the generator has returned
    out,        \* the items the stream has yielded, in order
    received,   \* history: the text appended to buffer so far
    consumed,   \* history: how many characters were split off buffer
    last,       \* the last call of the client and what it returned
    env,        \* what std::env::var gave for the three variables when
                \* from_env last read them: <<>> (Err) or <<value>>
    config,     \* the ClientConfig last handed to Client::new: <<>> or <<c>>
    client,     \* the Client the program holds: <<>> (none) or <<config>>
    request,    \* the request last sent: <<>> (none so far) or <<request>>
    peer        \* a second observe_events stream of the same client

vars ==
    <<body, pos, buffer, pc, out, received, consumed, last, env, config,
      client, request, peer>>

(***************************************************************************)
(* The request/response operations.  A response is <<status, body>>;       *)
(* status 0 stands for send() returning Err: there is no response.         *)
(***************************************************************************)
Statuses == {199, 200, 299, 300, 404, 500}

Responses == Statuses \X Bodies

SendError == <<0, <<>>>>

Status(r) == r[1]

Body(r) == r[2]

\* StatusCode::is_success, in the place of which 3xx counts as success too
IsSuccess_Below400(status) == status \in 200..399

\* StatusCode::is_success
IsSuccess(status) == status \in 200..299

\* StatusCode::canonical_reason().unwrap_or("Unknown"), on Statuses
CanonicalReason(status) ==
    CASE status = 200 -> "OK"
      [] status = 300 -> "Multiple Choices"
      [] status = 404 -> "Not Found"
      [] status = 500 -> "Internal Server Error"
      [] OTHER -> "Unknown"

\* the results of a call: Ok(value) and the errors of src/src/error.rs
OkResult(value) ==
    [kind |-> "Ok", status |-> 0, status_text |-> "", value |-> value]

ApiError(status) ==
    [kind        |-> "ApiError",
     status      |-> status,
     status_text |-> CanonicalReason(status),
     value       |-> <<>>]

\* Error::RequestError and Error::JsonError, by their names
Failure(kind) ==
    [kind |-> kind, status |-> 0, status_text |-> "", value |-> <<>>]

\* .send().await? and the status check every operation makes; onSuccess is
\* the result of what the operation does with a 2xx response
Checked(r, onSuccess) ==
    IF r = SendError THEN Failure("RequestError")
    ELSE IF ~IsSuccess(Status(r)) THEN ApiError(Status(r))
    ELSE onSuccess

\* response.text(): the whole body decoded at once
ResponseText(r) == FromUtf8Lossy(Body(r))

\* str::lines: the text split at the newlines, a final "\r" of a line removed,
\* and the text after the last newline a line of its own when not empty
StripCr(line) ==
    IF line /= <<>> /\ line[Len(line)] = 13
    THEN SubSeq(line, 1, Len(line) - 1)
    ELSE line

NthLine(text, nl, n) ==
    LET j    == CHOOSE k \in nl : Cardinality({m \in nl : m <= k}) = n
        from == IF n = 1 THEN 0
                ELSE CHOOSE k \in nl : Cardinality({m \in nl : m <= k}) = n - 1
    IN StripCr(SubSeq(text, from + 1, j - 1))

\* the text after the last newline left out, as live observation leaves it
LastLine_Dropped(text, nl) == <<>>

LastLine(text, nl) ==
    LET from == IF nl = {} THEN 0 ELSE CHOOSE k \in nl : \A m \in nl : m <= k
    IN IF from = Len(text) THEN <<>> ELSE <<SubSeq(text, from + 1, Len(text))>>

LinesOf(text, nl) ==
    [n \in 1..Cardinality(nl) |-> NthLine(text, nl, n)] \o LastLine(text, nl)

StrLines(text) == LinesOf(text, {j \in 1..Len(text) : text[j] = LF})

\* .filter(|line| !line.trim().is_empty())
NonBlank(lines) == SelectSeq(lines, LAMBDA line : Trim(line) /= <<>>)

\* the lines that do not parse left out of the result, as by filter_map
Collect_SkipErrors(parsed) ==
    OkResult(SelectSeq(parsed, LAMBDA one : one.ok))

\* .collect::<Result<Vec<_>, _>>()?
Collect(parsed) ==
    IF \E n \in 1..Len(parsed) : ~parsed[n].ok
    THEN Failure("JsonError")
    ELSE OkResult(parsed)

\* .map(|line| serde_json::from_str(line)) into Vec<CloudEvent>
MapCloudEvent(lines) ==
    [n \in 1..Len(lines) |-> FromStrCloudEvent(lines[n])]

\* .map(|line| serde_json::from_str(line)) into Vec<Value>
MapValue(lines) == [n \in 1..Len(lines) |-> FromStrValue(lines[n])]

\* every line parsed, the blank ones too, and no test for an empty text
EventsOf_ParseBlankLines(text) == Collect(MapCloudEvent(StrLines(text)))

\* the lines treated as observe_events treats them: the "data: " prefix
\* removed and the heartbeats left out before the events are parsed
EventsOf_Unframed(text) ==
    IF Trim(text) = <<>> THEN OkResult(<<>>)
    ELSE Collect(MapCloudEvent(
           SelectSeq([n \in 1..Len(NonBlank(StrLines(text))) |->
                        JsonStr(NonBlank(StrLines(text))[n])],
                     LAMBDA json_str : ~IsHeartbeat(json_str))))

\* stream_events on the text of a 2xx response
EventsOf(text) ==
    IF Trim(text) = <<>> THEN OkResult(<<>>)
    ELSE Collect(MapCloudEvent(NonBlank(StrLines(text))))

\* q on the text of a 2xx response
ValuesOf(text) ==
    IF Trim(text) = <<>> THEN OkResult(<<>>)
    ELSE Collect(MapValue(NonBlank(StrLines(text))))

\* ClientConfig
Config(api_url, api_version, auth_token) ==
    [api_url |-> api_url, api_version |-> api_version, auth_token |-> auth_token]

\* the values the settings take: "" and "h"; "" and "v1"; "", "t", "u" and
\* "\n", which is no legal header value
ApiUrls == {<<>>, <<104>>}
ApiVersions == {<<>>, <<118, 49>>}
Tokens == {<<>>, <<116>>, <<117>>, <<10>>}

Configs ==
    {Config(u, v, t) : u \in ApiUrls, v \in ApiVersions, t \in Tokens}

\* an error that carries a String: MissingConfig(what), EnvError(what)
ErrorWith(kind, what) ==
    [kind |-> kind, status |-> 0, status_text |-> what, value |-> <<>>]

\* Client::new without the test of auth_token
NewResult_TokenUnchecked(c) ==
    IF c.api_url = <<>> THEN ErrorWith("MissingConfig", "api_url")
    ELSE IF c.api_version = <<>> THEN ErrorWith("MissingConfig", "api_version")
    ELSE OkResult(<<c>>)

\* Client::new(config): Ok holds the client, which is its config
NewResult(c) ==
    IF c.api_url = <<>> THEN ErrorWith("MissingConfig", "api_url")
    ELSE IF c.api_version = <<>> THEN ErrorWith("MissingConfig", "api_version")
    ELSE IF c.auth_token = <<>> THEN ErrorWith("MissingConfig", "auth_token")
    ELSE OkResult(<<c>>)

\* The environment: what env::var gives for GENESISDB_API_URL,
\* GENESISDB_API_VERSION and GENESISDB_AUTH_TOKEN, <<>> for Err (not set) and
\* <<value>> for Ok(value)
EnvVar(values) == {<<>>} \cup {<<v>> : v \in values}

Envs == EnvVar(ApiUrls) \X EnvVar(ApiVersions) \X EnvVar(Tokens)

\* ClientConfig::from_env with the emptiness tested before the presence
ConfigFromEnv_EmptyFirst(e) ==
    IF \E k \in 1..3 : e[k] = << <<>> >>
    THEN ErrorWith("MissingConfig", "empty")
    ELSE IF \E k \in 1..3 : e[k] = <<>>
    THEN ErrorWith("EnvError", "not set")
    ELSE OkResult(Config(e[1][1], e[2][1], e[3][1]))

\* ClientConfig::from_env
ConfigFromEnv(e) ==
    IF e[1] = <<>> THEN ErrorWith("EnvError", "GENESISDB_API_URL not set")
    ELSE IF e[2] = <<>>
    THEN ErrorWith("EnvError", "GENESISDB_API_VERSION not set")
    ELSE IF e[3] = <<>>
    THEN ErrorWith("EnvError", "GENESISDB_AUTH_TOKEN not set")
    ELSE OkResult(Config(e[1][1], e[2][1], e[3][1]))

\* let config = ClientConfig::from_env()?; Self::new(config)
AndThenNew(r) == IF r.kind = "Ok" THEN NewResult(r.value) ELSE r

FromEnvResult(e) == AndThenNew(ConfigFromEnv(e))

\* "/api/" and "/"
ApiSegment == <<47, 97, 112, 105, 47>>
Slash == <<47>>

\* the paths of the operations
Path(op) ==
    CASE op = "ping" -> <<115, 116, 97, 116, 117, 115, 47, 112, 105, 110, 103>>
      [] op = "audit" -> <<115, 116, 97, 116, 117, 115, 47, 97, 117, 100, 105, 116>>
      [] op = "stream_events" -> <<115, 116, 114, 101, 97, 109>>
      [] op = "commit_events" -> <<99, 111, 109, 109, 105, 116>>
      [] op = "erase_data" -> <<101, 114, 97, 115, 101>>
      [] op \in {"q", "query_events"} -> <<113>>
      [] op = "observe_events" -> <<111, 98, 115, 101, 114, 118, 101>>

\* format!("{}/api/{}/{}", api_url, api_version, path)
build_url(c, path) == c.api_url \o ApiSegment \o c.api_version \o Slash \o path

\* "Bearer "
Bearer == <<66, 101, 97, 114, 101, 114, 32>>

\* the token sent as it is, without the scheme
auth_header_TokenOnly(c) == c.auth_token

\* format!("Bearer {}", auth_token)
auth_header(c) == Bearer \o c.auth_token

\* HeaderValue::from_str(..).is_ok(): no control character but the tab
IsHeaderValue(text) ==
    \A k \in 1..Len(text) : (text[k] >= 32 /\ text[k] /= 127) \/ text[k] = 9

\* the Content-Type and Accept the operations add to default_headers()
ContentType(op) ==
    IF op \in {"ping", "audit"} THEN "text/plain" ELSE "application/json"

Accept(op) ==
    IF op \in {"stream_events", "q", "query_events", "observe_events"}
    THEN <<"application/x-ndjson">>
    ELSE <<>>

\* the request of an operation: its method, its url and its headers, a
\* header that is not set being <<>>
RequestOf(op, c) ==
    [method        |-> IF op \in {"ping", "audit"} THEN "GET" ELSE "POST",
     url           |-> build_url(c, Path(op)),
     authorization |-> <<auth_header(c)>>,
     user_agent    |-> <<"genesisdb-sdk">>,
     content_type  |-> <<ContentType(op)>>,
     accept        |-> Accept(op)]

\* what last records of a call: the operation, the response it got and what
\* it returned
Call(op, r, result) == [op |-> op, response |-> r, result |-> result]

Operations ==
    {"ping", "audit", "stream_events", "commit_events", "erase_data", "q",
     "query_events", "observe_events"}

\* the call is suspended at .send().await
Pending(op) ==
    /\ last.op = op
    /\ last.result.kind = "Pending"

\* the url and the headers are built and the request is sent;
\* HeaderValue::from_str(&self.auth_header()).unwrap() panics on a token that
\* is no header value, and then nothing is sent
Send(op, c) ==
    IF IsHeaderValue(auth_header(c))
    THEN /\ request' = <<RequestOf(op, c)>>
         /\ last' = Call(op, SendError, Failure("Pending"))
    ELSE /\ request' = request
         /\ last' = Call(op, SendError, Failure("Panic"))

\* An operation is called: the call runs up to .send().await
Request(op) ==
    /\ last.result.kind /= "Pending"
    /\ client /= <<>>
    /\ Send(op, client[1])
    /\ UNCHANGED <<body, pos, buffer, pc, out, received, consumed, env, config,
                   client, peer>>

\* The operations from the return of send() on, r being what it returned
Ping(r) ==
    /\ Pending("ping")
    /\ last' = Call("ping", r, Checked(r, OkResult(ResponseText(r))))
    /\ UNCHANGED <<body, pos, buffer, pc, out, received, consumed, env, config,
                   client, request, peer>>

Audit(r) ==
    /\ Pending("audit")
    /\ last' = Call("audit", r, Checked(r, OkResult(ResponseText(r))))
    /\ UNCHANGED <<body, pos, buffer, pc, out, received, consumed, env, config,
                   client, request, peer>>

StreamEvents(r) ==
    /\ Pending("stream_events")
    /\ last' = Call("stream_events", r, Checked(r, EventsOf(ResponseText(r))))
    /\ UNCHANGED <<body, pos, buffer, pc, out, received, consumed, env, config,
                   client, request, peer>>

CommitEvents(r) ==
    /\ Pending("commit_events")
    /\ last' = Call("commit_events", r, Checked(r, OkResult(<<>>)))
    /\ UNCHANGED <<body, pos, buffer, pc, out, received, consumed, env, config,
                   client, request, peer>>

EraseData(r) ==
    /\ Pending("erase_data")
    /\ last' = Call("erase_data", r, Checked(r, OkResult(<<>>)))
    /\ UNCHANGED <<body, pos, buffer, pc, out, received, consumed, env, config,
                   client, request, peer>>

QResult(r) == Checked(r, ValuesOf(ResponseText(r)))

Q(r) ==
    /\ Pending("q")
    /\ last' = Call("q", r, QResult(r))
    /\ UNCHANGED <<body, pos, buffer, pc, out, received, consumed, env, config,
                   client, request, peer>>

\* self.q(query).await
QueryEvents(r) ==
    /\ Pending("query_events")
    /\ last' = Call("query_events", r, QResult(r))
    /\ UNCHANGED <<body, pos, buffer, pc, out, received, consumed, env, config,
                   client, request, peer>>

\* observe_events up to its return: Ok holds the stream over the bytes of the
\* body, of which nothing has been read
ObserveResult(r) == Checked(r, OkResult(Body(r)))

ObserveEvents(r) ==
    /\ Pending("observe_events")
    /\ last' = Call("observe_events", r, ObserveResult(r))
    /\ UNCHANGED <<body, pos, buffer, pc, out, received, consumed, env, config,
                   client, request, peer>>

\* The state of one observe_events stream
Session(b, p, buf, at, items, text, split) ==
    [body |-> b, pos |-> p, buffer |-> buf, pc |-> at, out |-> items,
     received |-> text, consumed |-> split]

\* no stream
NoSession(b) == Session(b, 0, <<>>, "none", <<>>, <<>>, 0)

\* nothing read from the environment
NoEnv == << <<>>, <<>>, <<>> >>

\* no stream exists
NoStreams ==
    /\ body = <<>>
    /\ pos = 0
    /\ buffer = <<>>
    /\ pc = "none"
    /\ out = <<>>
    /\ received = <<>>
    /\ consumed = 0
    /\ peer = NoSession(<<>>)

\* Client::new(c)
New(c) ==
    /\ config' = <<c>>
    /\ last' = Call("new", SendError, NewResult(c))
    /\ client' = IF NewResult(c).kind = "Ok" THEN NewResult(c).value ELSE client
    /\ UNCHANGED <<body, pos, buffer, pc, out, received, consumed, env,
                   request, peer>>

\* Client::from_env(), e being what env::var gives
FromEnv(e) ==
    /\ env' = e
    /\ config' = IF ConfigFromEnv(e).kind = "Ok"
                 THEN <<ConfigFromEnv(e).value>>
                 ELSE config
    /\ last' = Call("from_env", SendError, FromEnvResult(e))
    /\ client' = IF FromEnvResult(e).kind = "Ok"
                 THEN FromEnvResult(e).value
                 ELSE client
    /\ UNCHANGED <<body, pos, buffer, pc, out, received, consumed, request,
                   peer>>

\* The program has no client yet
InitNew ==
    /\ NoStreams
    /\ env = NoEnv
    /\ config = <<>>
    /\ client = <<>>
    /\ request = <<>>
    /\ last = Call("none", SendError, OkResult(<<>>))

NextNew ==
    \/ \E c \in Configs : New(c)
    \/ \E e \in Envs : FromEnv(e)

SpecNew == InitNew /\ [][NextNew]_vars

\* Client::new has returned the client; no call has been made
InitApi ==
    \E c \in Configs :
        /\ NewResult(c).kind = "Ok"
        /\ NoStreams
        /\ env = NoEnv
        /\ config = <<c>>
        /\ client = <<c>>
        /\ request = <<>>
        /\ last = Call("new", SendError, NewResult(c))

Respond(r) ==
    \/ Ping(r)
    \/ Audit(r)
    \/ StreamEvents(r)
    \/ CommitEvents(r)
    \/ EraseData(r)
    \/ Q(r)
    \/ QueryEvents(r)
    \/ ObserveEvents(r)

\* what send() can return: nothing while no call is in flight
Arriving ==
    IF last.result.kind = "Pending" THEN Responses \cup {SendError} ELSE {}

NextApi ==
    \/ \E op \in Operations : Request(op)
    \/ \E r \in Arriving : Respond(r)

SpecApi == InitApi /\ [][NextApi]_vars

(***************************************************************************)
(* observe_events: the stream                                              *)
(***************************************************************************)
\* The state in which observe_events has returned Ok(stream) for body b
Opened(b) ==
    /\ body = b
    /\ pos = 0
    /\ buffer = <<>>
    /\ pc = "start"
    /\ out = <<>>
    /\ received = <<>>
    /\ consumed = 0

\* observe_events has returned the stream for a 200 response
Init ==
    \E b \in Bodies, c \in {Config(<<104>>, <<118, 49>>, <<116>>)} :
        /\ Opened(b)
        /\ peer = NoSession(<<>>)
        /\ env = NoEnv
        /\ config = <<c>>
        /\ client = <<c>>
        /\ request = <<RequestOf("observe_events", c)>>
        /\ last = Call("observe_events", <<200, b>>, ObserveResult(<<200, b>>))

\* a decode error taken for the end of the sequence, like a transport error
SuspendAt_EndOnDecodeError(r) ==
    /\ buffer' = r.buffer
    /\ consumed' = r.consumed
    /\ IF r.item = <<>>
       THEN pc' = "await" /\ out' = out
       ELSE /\ out' = Append(out, r.item[1])
            /\ pc' = IF r.item[1].kind = "JsonError" THEN "failed" ELSE "yielded"

\* Suspend the generator where the inner loop r left it: at a yield, or at
\* the await when the loop ended without one
SuspendAt(r) ==
    /\ buffer' = r.buffer
    /\ consumed' = r.consumed
    /\ IF r.item = <<>>
       THEN pc' = "await" /\ out' = out
       ELSE pc' = "yielded" /\ out' = Append(out, r.item[1])

\* next() on a stream not polled yet: let mut buffer = String::new(), then
\* the generator waits for the first chunk
PollFirst ==
    /\ pc = "start"
    /\ pc' = "await"
    /\ buffer' = <<>>
    /\ UNCHANGED <<body, pos, out, received, consumed, last,
                   env, config, client, request, peer>>

\* the generator resumed at the await, the rest of the inner loop left out
PollResume_SkipLoop ==
    /\ pc = "yielded"
    /\ pc' = "await"
    /\ UNCHANGED <<body, pos, buffer, out, received, consumed, last,
                   env, config, client, request, peer>>

\* next() on a stream suspended at a yield of the inner loop
PollResume ==
    /\ pc = "yielded"
    /\ \E r \in {InnerLoop(buffer, consumed)} : SuspendAt(r)
    /\ UNCHANGED <<body, pos, received, last,
                   env, config, client, request, peer>>

\* buffer = text.into_owned() in the place of push_str: what was left of the
\* last chunk is overwritten
PushStr_Overwrite(text) ==
    /\ received' = received \o text
    /\ SuspendAt(InnerLoop(text, consumed))

\* let text = String::from_utf8_lossy(&chunk); buffer.push_str(&text); and the
\* inner loop
PushStr(text) ==
    /\ received' = received \o text
    /\ \E r \in {InnerLoop(buffer \o text, consumed)} : SuspendAt(r)

\* the transport pushes its chunk into a stream that is not waiting for it
RecvChunk_Push(n) ==
    /\ pc \in {"await", "yielded"}
    /\ pos' = pos + n
    /\ PushStr(FromUtf8Lossy(SubSeq(body, pos + 1, pos + n)))
    /\ UNCHANGED <<body, last, env, config, client, request, peer>>

\* byte_stream.next() gives Some(Ok(chunk)), chunk being the next n bytes
RecvChunk(n) ==
    /\ pc = "await"
    /\ pos' = pos + n
    /\ PushStr(FromUtf8Lossy(SubSeq(body, pos + 1, pos + n)))
    /\ UNCHANGED <<body, last,
                   env, config, client, request, peer>>

\* what is left in the buffer taken for a last line before the error is
\* reported
RecvError_FlushBuffer ==
    /\ pc = "await"
    /\ out' = out \o LineItem(Trim(buffer))
                  \o <<[kind |-> "RequestError", event |-> <<>>, at |-> 0]>>
    /\ pc' = "failed"
    /\ UNCHANGED <<body, pos, buffer, received, consumed, last,
                   env, config, client, request, peer>>

\* byte_stream.next() gives Some(Err(e))
RecvError ==
    /\ pc = "await"
    /\ out' = Append(out, [kind |-> "RequestError", event |-> <<>>, at |-> 0])
    /\ pc' = "failed"
    /\ UNCHANGED <<body, pos, buffer, received, consumed, last,
                   env, config, client, request, peer>>

\* the break left out: the outer loop goes on to the next chunk
PollAfterError_NoBreak ==
    /\ pc = "failed"
    /\ pc' = "await"
    /\ UNCHANGED <<body, pos, buffer, out, received, consumed, last,
                   env, config, client, request, peer>>

\* next() on a stream suspended at the yield of Err(RequestError): break
PollAfterError ==
    /\ pc = "failed"
    /\ pc' = "done"
    /\ UNCHANGED <<body, pos, buffer, out, received, consumed, last,
                   env, config, client, request, peer>>

\* the rest of the buffer flushed as a last line
AtEndOfStream_Flush(buf) == LineItem(Trim(buf))

\* What the generator yields between the end of the outer loop and its return:
\* nothing, whatever is left in the buffer
AtEndOfStream(buf) == <<>>

\* byte_stream.next() gives None: the while let loop ends
RecvEnd ==
    /\ pc = "await"
    /\ pos = Len(body)
    /\ out' = out \o AtEndOfStream(buffer)
    /\ pc' = "done"
    /\ UNCHANGED <<body, pos, buffer, received, consumed, last,
                   env, config, client, request, peer>>

Next ==
    \/ PollFirst
    \/ RecvError
    \/ PollAfterError
    \/ RecvEnd
    \/ PollResume
    \/ \E n \in ChunkLens(Len(body) - pos) : RecvChunk(n)

Spec == Init /\ [][Next]_vars

\* The consumer keeps pulling and the transport keeps delivering what is left
\* of the body, its end, or an error
SpecLive == Spec /\ WF_vars(Next)

(***************************************************************************)
(* Two observe_events streams of one client, and its other calls.  The     *)
(* second stream, peer, is the same generator over its own byte_stream     *)
(* and its own buffer.                                                     *)
(***************************************************************************)
\* the bodies of the two streams
PairBodies == { EventBytes1 \o <<LF>>, NbspBytes \o <<LF>> \o DataPrefix \o <<LF>> }

PeerBodies == { NbspBytes \o <<LF>> \o DataPrefix \o <<LF>> }

\* what send() returns to a call made while the streams are read
PairResponses == { <<200, EventBytes1 \o <<LF>>>> }

\* the stream p suspended where the inner loop r left it
Suspended(p, r) ==
    [p EXCEPT !.buffer = r.buffer,
              !.consumed = r.consumed,
              !.pc = IF r.item = <<>> THEN "await" ELSE "yielded",
              !.out = IF r.item = <<>> THEN @ ELSE Append(@, r.item[1])]

\* the first stream and the calls are left alone
PeerOnly ==
    UNCHANGED <<body, pos, buffer, pc, out, received, consumed, last, env,
                config, client, request>>

PeerPollFirst ==
    /\ peer.pc = "start"
    /\ peer' = [peer EXCEPT !.pc = "await", !.buffer = <<>>]
    /\ PeerOnly

PeerPollResume ==
    /\ peer.pc = "yielded"
    /\ peer' = Suspended(peer, InnerLoop(peer.buffer, peer.consumed))
    /\ PeerOnly

\* the text of the chunk pushed on the buffer of the first stream
PeerPushStr_SharedBuffer(p, text) ==
    /\ peer' = [p EXCEPT !.received = @ \o text]
    /\ buffer' = buffer \o text
    /\ UNCHANGED <<body, pos, pc, out, received, consumed, last, env, config,
                   client, request>>

\* buffer.push_str(&text) and the inner loop, on the buffer of the stream
PeerPushStr(p, text) ==
    /\ peer' = Suspended([p EXCEPT !.received = @ \o text],
                         InnerLoop(p.buffer \o text, p.consumed))
    /\ PeerOnly

PeerRecvChunk(n) ==
    /\ peer.pc = "await"
    /\ PeerPushStr([peer EXCEPT !.pos = @ + n],
                   FromUtf8Lossy(SubSeq(peer.body, peer.pos + 1, peer.pos + n)))

PeerRecvError ==
    /\ peer.pc = "await"
    /\ peer' = [peer EXCEPT
                  !.out = Append(@, [kind |-> "RequestError", event |-> <<>>,
                                     at |-> 0]),
                  !.pc = "failed"]
    /\ PeerOnly

PeerPollAfterError ==
    /\ peer.pc = "failed"
    /\ peer' = [peer EXCEPT !.pc = "done"]
    /\ PeerOnly

PeerRecvEnd ==
    /\ peer.pc = "await"
    /\ peer.pos = Len(peer.body)
    /\ peer' = [peer EXCEPT !.out = @ \o AtEndOfStream(peer.buffer),
                            !.pc = "done"]
    /\ PeerOnly

PeerNext ==
    \/ PeerPollFirst
    \/ PeerPollResume
    \/ \E n \in ChunkLens(Len(peer.body) - peer.pos) : PeerRecvChunk(n)
    \/ PeerRecvError
    \/ PeerPollAfterError
    \/ PeerRecvEnd

\* observe_events has returned two streams, the second one last
InitPair ==
    \E b \in PairBodies, d \in PeerBodies,
       c \in {Config(<<104>>, <<118, 49>>, <<116>>)} :
        /\ Opened(b)
        /\ peer = Session(d, 0, <<>>, "start", <<>>, <<>>, 0)
        /\ env = NoEnv
        /\ config = <<c>>
        /\ client = <<c>>
        /\ request = <<RequestOf("observe_events", c)>>
        /\ last = Call("observe_events", <<200, d>>, ObserveResult(<<200, d>>))

PairArriving ==
    IF last.result.kind = "Pending" THEN PairResponses ELSE {}

NextPair ==
    \/ Next
    \/ PeerNext
    \/ \E op \in Operations : Request(op)
    \/ \E r \in PairArriving : Respond(r)

SpecPair == InitPair /\ [][NextPair]_vars

\* The caller consumes an observe_events stream to its end, the whole body
\* delivered, and then calls stream_events, which the server answers with the
\* same body
NextBatch ==
    \/ Next
    \/ pc = "done" /\ pos = Len(body) /\ Request("stream_events")
    \/ StreamEvents(<<200, body>>)

SpecBatch == Init /\ [][NextBatch]_vars

(***************************************************************************)
(* What the claims speak of                                                *)
(***************************************************************************)
\* the items decoded from lines (all but the transport error)
Decoded(items) == {i \in 1..Len(items) : items[i].kind /= "RequestError"}

HasFailed == \E i \in 1..Len(out) : out[i].kind = "RequestError"

\* the stream has ended because the transport ended, with no transport error
CleanEnd == pc = "done" /\ ~HasFailed

\* what the consumer sees of an item: Ok(event) or the kind of the error
Seen(item) == <<item.kind, item.event>>

SeenAll(items) == [i \in 1..Len(items) |-> Seen(items[i])]

\* the places of the newlines in a text
Newlines(text) == {j \in 1..Len(text) : text[j] = LF}

\* the line of text that the newline at j terminates, as it stands in text
RawLine(text, j) ==
    LET before == {k \in Newlines(text) : k < j}
        from   == IF before = {} THEN 0
                  ELSE CHOOSE k \in before : \A m \in before : m <= k
    IN SubSeq(text, from + 1, j - 1)

\* the text after the last newline
Residue(text) ==
    LET nl == Newlines(text)
        from == IF nl = {} THEN 0 ELSE CHOOSE k \in nl : \A m \in nl : m <= k
    IN SubSeq(text, from + 1, Len(text))

\* the items yielded for the line that the newline at j of received terminates
ItemsAt(j) == {i \in Decoded(out) : out[i].at = j}

\* the same items, as the sequence they were yielded in
YieldedAt(j) ==
    SelectSeq(out, LAMBDA item : item.kind /= "RequestError" /\ item.at = j)

\* a record with exactly one entry, a payload field holding the empty string
IsHeartbeatText(t) ==
    LET p == ParseObject(t) IN
    p.ok /\ Len(p.members) = 1 /\ p.members[1] = <<KeyPayload, <<>>>>

\* All that the stream yields when the text arrives as one chunk
RECURSIVE AllItems(_, _)
Continue(r) ==
    IF r.item = <<>> THEN <<>> ELSE r.item \o AllItems(r.buffer, r.consumed)

AllItems(buf, base) == Continue(InnerLoop(buf, base))

WholeBody == AllItems(FromUtf8Lossy(body), 0)

\* C1: however the transport cuts the body into chunks, the stream yields at
\* the end of the body the same items (the same events and the same decode
\* errors at the same places) as when the body arrives as one chunk.
C1_SameItemsForAnyChunking ==
    CleanEnd => SeenAll(out) = SeenAll(WholeBody)

\* C2: the items are yielded in the order of the lines they are decoded from:
\* every item stands for a newline of the text received, the places of
\* successive items increase, and each item is what its line decodes to.
DecodesTo(item, line) ==
    Seen(item) = Seen(EventItem(FromStrCloudEvent(JsonStr(Trim(line)))))

C2_ItemsInLineOrder ==
    /\ \A i \in Decoded(out) : out[i].at \in Newlines(received)
    /\ \A i, j \in Decoded(out) : i < j => out[i].at < out[j].at
    /\ CleanEnd =>
         \A i \in Decoded(out) : DecodesTo(out[i], RawLine(received, out[i].at))

C2_Witness ==
    /\ CleanEnd
    /\ Len(out) = 2
    /\ out[1].kind = "Ok"
    /\ out[2].kind = "Ok"
    /\ out[1].event /= out[2].event

\* C3: a line that does not parse yields exactly one decode error and does not
\* end the sequence: the stream ends only after the whole body, and every line
\* after the failing one that is an event has been yielded as that event.
FailsToParse(line) ==
    /\ Trim(line) /= <<>>
    /\ ~IsHeartbeatText(JsonStr(Trim(line)))
    /\ ~FromStrCloudEvent(JsonStr(Trim(line))).ok

IsEventLine(line) ==
    /\ Trim(line) /= <<>>
    /\ FromStrCloudEvent(JsonStr(Trim(line))).ok

C3_DecodeErrorDoesNotEndSequence ==
    CleanEnd =>
      /\ pos = Len(body)
      /\ \A j \in Newlines(received) :
           FailsToParse(RawLine(received, j)) =>
             /\ Cardinality(ItemsAt(j)) = 1
             /\ \A i \in ItemsAt(j) : out[i].kind = "JsonError"
             /\ \A k \in Newlines(received) :
                  (k > j /\ IsEventLine(RawLine(received, k))) =>
                     \E i \in ItemsAt(k) :
                        /\ out[i].kind = "Ok"
                        /\ DecodesTo(out[i], RawLine(received, k))

C3_Witness ==
    /\ CleanEnd
    /\ Len(out) = 2
    /\ out[1].kind = "JsonError"
    /\ out[2].kind = "Ok"

\* C4: a transport error yields exactly one error item, and after it the
\* sequence is exhausted: no item is yielded and no chunk is read any more,
\* and the next pull ends the stream.
C4_TransportErrorEndsSequence ==
    [][ /\ (~HasFailed /\ HasFailed') =>
              /\ Len(out') = Len(out) + 1
              /\ pc' = "failed"
        /\ HasFailed =>
              /\ out' = out
              /\ pos' = pos
              /\ pc' = "done" ]_vars

C4_Witness ==
    /\ pc = "done"
    /\ HasFailed
    /\ Len(out) = 2
    /\ out[2].kind = "RequestError"
    /\ pos < Len(body)

\* C5: what is left in the buffer when the transport ends yields nothing:
\* every item of a finished stream stands for a newline of the text received,
\* and the text after the last newline is still in the buffer, unused.
C5_UnterminatedTailDiscarded ==
    pc = "done" =>
      /\ \A i \in Decoded(out) : out[i].at \in Newlines(received)
      /\ Cardinality(Decoded(out)) <= Cardinality(Newlines(received))
      /\ buffer = Residue(received)

C5_Witness ==
    /\ CleanEnd
    /\ FromStrCloudEvent(buffer).ok
    /\ Len(out) = 1

\* C6: a line that is, after the removal of an optional "data: ", a record
\* with the single entry payload = "" yields no item.
C6_HeartbeatDropped ==
    CleanEnd =>
      \A j \in Newlines(received) :
         IsHeartbeatText(JsonStr(Trim(RawLine(received, j)))) => ItemsAt(j) = {}

C6_Witness ==
    /\ CleanEnd
    /\ out = <<>>
    /\ \E j, k \in Newlines(received) :
          /\ RawLine(received, j) = HeartbeatBytes
          /\ RawLine(received, k) = DataPrefix \o HeartbeatBytes

\* C7 as claimed: whenever control is back with the consumer, at a yielded
\* item and at the end of the sequence, the buffer holds no newline.
C7_NoLineLeftAtYield ==
    pc \in {"yielded", "failed", "done"} => Find(buffer, LF) = 0

\* C7 as amended: whenever the generator waits for the next chunk, and when
\* the sequence has ended, the buffer holds no newline; at a yield of the
\* inner loop it may still hold complete lines.
C7_NoLineLeftAtAwait ==
    pc \in {"start", "await", "failed", "done"} => Find(buffer, LF) = 0

C7_Witness ==
    /\ pc = "await"
    /\ buffer /= <<>>
    /\ Len(out) = 2

\* C8: every newline-terminated line that is not empty after trimming and is
\* no heartbeat yields exactly one item, the event if the line parses and a
\* decode error if not; this holds of the lines of the body as of the lines
\* of the text received, however the chunks cut them; and the body that is
\* one well-formed event line yields that event and nothing else.
Yields(line) ==
    /\ Trim(line) /= <<>>
    /\ ~IsHeartbeatText(JsonStr(Trim(line)))

\* the place of the n-th newline of a text
NthNewline(text, n) ==
    CHOOSE j \in Newlines(text) :
       Cardinality({k \in Newlines(text) : k <= j}) = n

C8_OneItemPerLine ==
    CleanEnd =>
      /\ \A j \in Newlines(received) :
           Yields(RawLine(received, j)) =>
             /\ Cardinality(ItemsAt(j)) = 1
             /\ \A i \in ItemsAt(j) :
                  out[i].kind = IF IsEventLine(RawLine(received, j))
                                THEN "Ok" ELSE "JsonError"
      /\ \A n \in 1..Cardinality(Newlines(FromUtf8Lossy(body))) :
           Yields(RawLine(FromUtf8Lossy(body),
                          NthNewline(FromUtf8Lossy(body), n))) =>
             Cardinality(ItemsAt(NthNewline(received, n))) = 1
      /\ body = EventBytes1 \o <<LF>> =>
           /\ Len(out) = 1
           /\ out[1].kind = "Ok"
           /\ out[1].event[1].id = <<49>>

C8_Witness ==
    /\ CleanEnd
    /\ body = DataPrefix \o <<LF>> \o EventBytes2 \o <<LF>>
    /\ received /= FromUtf8Lossy(body)
    /\ Len(out) = 2

\* C9: the line "data: X" has the outcome of the line X, whatever X is: the
\* same event, the same decode error, or no item.
C9_DataPrefixTransparent ==
    CleanEnd =>
      \A j \in Newlines(received) :
         StartsWith(RawLine(received, j), DataPrefix) =>
            SeenAll(YieldedAt(j))
              = SeenAll(LineItem(Trim(JsonStr(RawLine(received, j)))))

\* C10: whichever operation made the call, a response whose status is not
\* 2xx gives an ApiError with that very status and nothing else: no text, no
\* events, no results and no stream, whatever the body holds.
C10_NonSuccessIsApiError ==
    (/\ last.op \in Operations
     /\ last.response /= SendError
     /\ Status(last.response) \notin 200..299) =>
        /\ last.result.kind = "ApiError"
        /\ last.result.status = Status(last.response)
        /\ last.result.value = <<>>
        /\ pc = "none"

C10_Witness ==
    /\ last.op = "stream_events"
    /\ last.response = <<300, EventBytes1 \o <<LF>>>>
    /\ last.result.kind = "ApiError"
    /\ last.result.status = 300

\* the lines of a text as the batch operations see them: the text between the
\* newlines, and the text after the last newline when there is any
BodyLines(text) ==
    [n \in 1..Cardinality(Newlines(text)) |->
        RawLine(text, NthNewline(text, n))]
      \o (IF Residue(text) = <<>> THEN <<>> ELSE <<Residue(text)>>)

IsBlank(line) == \A k \in 1..Len(line) : IsWhitespace(line[k])

NonBlankLines(text) == SelectSeq(BodyLines(text), LAMBDA line : ~IsBlank(line))

\* a batch call that got a 2xx response
BatchSuccess(op) ==
    /\ last.op = op
    /\ last.result.kind /= "Pending"
    /\ last.response /= SendError
    /\ Status(last.response) \in 200..299

\* C11: stream_events and q (and its alias query_events) return the empty
\* sequence, not an error, for a 2xx response whose body is empty or holds
\* nothing but whitespace.
C11_EmptyBodyIsEmptyResult ==
    \A op \in {"stream_events", "q", "query_events"} :
       (BatchSuccess(op) /\ IsBlank(FromUtf8Lossy(Body(last.response)))) =>
          last.result = OkResult(<<>>)

C11_Witness ==
    /\ BatchSuccess("q")
    /\ Body(last.response) = <<LF>> \o NbspBytes \o <<LF>>
    /\ last.result = OkResult(<<>>)

\* C12: when a non-blank line of a 2xx body does not parse, stream_events and
\* q return a decode error and nothing else, whatever the other lines are;
\* when every non-blank line parses, the result has one entry for each of
\* them, in the order of the body.
AllOrNothing(parsed) ==
    IF \E n \in 1..Len(parsed) : ~parsed[n].ok
    THEN last.result = Failure("JsonError")
    ELSE /\ last.result.kind = "Ok"
         /\ last.result.value = parsed

EventsIn(lines) == [n \in 1..Len(lines) |-> FromStrCloudEvent(lines[n])]

ValuesIn(lines) == [n \in 1..Len(lines) |-> FromStrValue(lines[n])]

C12_BatchAllOrNothing ==
    /\ BatchSuccess("stream_events") =>
         AllOrNothing(EventsIn(NonBlankLines(FromUtf8Lossy(Body(last.response)))))
    /\ \A op \in {"q", "query_events"} :
         BatchSuccess(op) =>
           AllOrNothing(ValuesIn(NonBlankLines(FromUtf8Lossy(Body(last.response)))))

C12_Witness ==
    /\ BatchSuccess("stream_events")
    /\ Body(last.response)
         = EventBytes1 \o <<LF>> \o HeartbeatBytes \o <<LF>> \o EventBytes1
    /\ last.result = Failure("JsonError")

\* C13: Client::new returns MissingConfig exactly when one of api_url,
\* api_version and auth_token is the empty string, and otherwise the client
\* with that configuration; in neither case is a request sent.
SomeEmpty(c) ==
    c.api_url = <<>> \/ c.api_version = <<>> \/ c.auth_token = <<>>

C13_NewValidatesConfig ==
    last.op = "new" =>
       /\ config /= <<>>
       /\ last.result.kind = "MissingConfig" <=> SomeEmpty(config[1])
       /\ last.result.kind = "Ok" <=> ~SomeEmpty(config[1])
       /\ last.result.kind = "Ok" =>
             /\ last.result.value = config
             /\ client = config
       /\ request = <<>>

C13_Witness ==
    /\ last.op = "new"
    /\ config = <<Config(<<104>>, <<118, 49>>, <<>>)>>
    /\ last.result.kind = "MissingConfig"
    /\ client /= <<>>

\* the variables from_env found not set, and those it found set to ""
Absent == {k \in 1..3 : env[k] = <<>>}

Empty == {k \in 1..3 : env[k] = << <<>> >>}

\* C14 as claimed: from_env gives a client only when the three variables are
\* set and not empty, an environment error when a variable is not set, a
\* MissingConfig error when a variable is set to "", and no transport error.
C14_EmptyVariableIsMissingConfig ==
    last.op = "from_env" =>
       /\ last.result.kind = "Ok" => (Absent = {} /\ Empty = {})
       /\ Absent /= {} => last.result.kind = "EnvError"
       /\ Empty /= {} => last.result.kind = "MissingConfig"
       /\ last.result.kind /= "RequestError"

\* C14 as amended: a variable that is not set gives the environment error
\* whatever the others hold; MissingConfig is the result when all three are
\* set and one of them is ""; otherwise the client is built from the three
\* values; no request is sent.
C14_FromEnvErrors ==
    last.op = "from_env" =>
       /\ last.result.kind = "Ok" <=> (Absent = {} /\ Empty = {})
       /\ Absent /= {} <=> last.result.kind = "EnvError"
       /\ (Absent = {} /\ Empty /= {}) <=> last.result.kind = "MissingConfig"
       /\ last.result.kind = "Ok" =>
             /\ client = <<Config(env[1][1], env[2][1], env[3][1])>>
             /\ config = client
       /\ last.result.kind /= "RequestError"
       /\ request = <<>>

C14_Witness ==
    /\ last.op = "from_env"
    /\ env = << << <<>> >>, <<<<118, 49>>>>, <<>> >>
    /\ last.result.kind = "EnvError"

\* C17: every request an operation sends carries the Authorization header
\* "Bearer " followed by the configured token and the User-Agent header
\* "genesisdb-sdk"; and every operation that waits for a response has sent
\* such a request to its own url.
C17_RequestsCarryAuthAndAgent ==
    /\ request /= <<>> =>
         /\ request[1].authorization
              = << <<66, 101, 97, 114, 101, 114, 32>> \o client[1].auth_token >>
         /\ request[1].user_agent = <<"genesisdb-sdk">>
    /\ last.result.kind = "Pending" =>
         /\ request /= <<>>
         /\ request[1].url = build_url(client[1], Path(last.op))

C17_Witness ==
    /\ Pending("commit_events")
    /\ request /= <<>>
    /\ request[1].authorization = << <<66, 101, 97, 114, 101, 114, 32, 117>> >>
    /\ request[1].method = "POST"

\* the items a stream has decoded from lines, as the consumer sees them
DecodedItems(items) ==
    SeenAll(SelectSeq(items, LAMBDA item : item.kind /= "RequestError"))

\* a stream has yielded what it yields alone on the chunks it has received:
\* the items of the lines of its own text, all of them once it waits for the
\* next chunk or has ended, and the first of them while it is at a yield
AsAlone(s) ==
    /\ Len(DecodedItems(s.out)) <= Len(SeenAll(AllItems(s.received, 0)))
    /\ DecodedItems(s.out)
         = SubSeq(SeenAll(AllItems(s.received, 0)), 1, Len(DecodedItems(s.out)))
    /\ s.pc \in {"await", "failed", "done"} =>
         DecodedItems(s.out) = SeenAll(AllItems(s.received, 0))
    /\ Len(s.received) <= s.pos
    /\ Cardinality(Newlines(s.received))
         = Cardinality(Newlines(SubSeq(s.body, 1, s.pos)))

\* C15: two streams of one client, read in any interleaving with each other
\* and with other calls, do not interfere: every step changes one stream at
\* most and is a step that stream takes alone; each stream yields the items
\* of its own chunks; the client and its configuration never change.
C15_StreamsDoNotInterfere ==
    /\ [](AsAlone(Session(body, pos, buffer, pc, out, received, consumed)))
    /\ [](AsAlone(peer))
    /\ [][ /\ <<body, pos, buffer, pc, out, received, consumed>>'
               /= <<body, pos, buffer, pc, out, received, consumed>>
             => (Next /\ peer' = peer)
           /\ peer' /= peer
             => (PeerNext
                 /\ <<body, pos, buffer, pc, out, received, consumed>>'
                      = <<body, pos, buffer, pc, out, received, consumed>>)
           /\ client' = client
           /\ config' = config ]_vars

C15_Witness ==
    /\ pc = "done"
    /\ peer.pc = "done"
    /\ Len(out) = 1
    /\ out[1].kind = "Ok"
    /\ Len(peer.out) = 2
    /\ peer.out[1].kind = "JsonError"
    /\ peer.out[2].kind = "JsonError"
    /\ last.op = "ping"

\* C16: the stream is pull-based.  A chunk is taken from the transport only
\* by a stream that is inside next(), waiting at byte_stream.next().await,
\* with no complete line left in its buffer; while the stream is suspended
\* at a yield, not yet polled, or ended, nothing is read, and a pull that
\* finds a complete line in the buffer yields from it without reading.
C16_PullBased ==
    [][ /\ (pos' /= pos \/ received' /= received) =>
              /\ pc = "await"
              /\ Find(buffer, LF) = 0
        /\ pc \in {"start", "yielded", "failed", "done"} =>
              /\ pos' = pos
              /\ received' = received ]_vars

C16_Witness ==
    /\ pc = "yielded"
    /\ Find(buffer, LF) /= 0
    /\ pos < Len(body)
    /\ Len(out) = 1

\* the newline-terminated lines of a text, in order
TerminatedLines(text) ==
    [n \in 1..Cardinality(Newlines(text)) |->
        RawLine(text, NthNewline(text, n))]

\* the text without its lines that are empty after trimming
WithoutBlankLines(text) ==
    Terminated(SelectSeq(TerminatedLines(text), LAMBDA line : ~IsBlank(line)))

\* C18: a newline-terminated line that is empty after trimming yields no
\* item, and the stream yields what it yields for the text without such lines.
C18_EmptyLinesDiscarded ==
    CleanEnd =>
      /\ \A j \in Newlines(received) :
            IsBlank(RawLine(received, j)) => ItemsAt(j) = {}
      /\ SeenAll(out) = SeenAll(AllItems(WithoutBlankLines(received), 0))

C18_Witness ==
    /\ CleanEnd
    /\ body = NbspBytes \o <<LF>> \o EventBytes2 \o <<LF>>
    /\ received = FromUtf8Lossy(body)
    /\ Len(out) = 1
    /\ out[1].kind = "Ok"

\* C19: with a consumer that keeps pulling and a transport that delivers its
\* finitely many chunks and then its end or an error, the stream ends; every
\* yield of the inner loop takes at least one character off the buffer, so
\* that the buffer is the text received less what was split off; and the
\* ended stream has yielded one item for every newline-terminated line
\* received that is not empty and no heartbeat, and no more items than lines.
C19_StreamEnds ==
    /\ <>(pc = "done")
    /\ [][ Len(out') > Len(out) /\ ~HasFailed' => consumed' > consumed ]_vars
    /\ [](/\ consumed <= Len(received)
          /\ buffer = SubSeq(received, consumed + 1, Len(received)))
    /\ [](pc = "done" =>
            /\ \A j \in Newlines(received) :
                 Yields(RawLine(received, j)) => Cardinality(ItemsAt(j)) = 1
            /\ Len(out) <= Cardinality(Newlines(received)) + 1)

C19_Witness ==
    /\ pc = "done"
    /\ HasFailed
    /\ Len(out) = 3
    /\ pos = Len(body)


\* C20: each time the stream waits for the next chunk, the buffer is exactly
\* the received text that follows its last newline (empty when the text is
\* empty or ends with a newline): nothing of an unterminated line is lost or
\* repeated across the chunk boundaries
C20_BufferIsUnterminatedRest ==
    pc = "await" => buffer = Residue(received)

\* a chunk ended in the middle of a line, after a line that yielded an item
\* and with the start of the line already in the buffer from an earlier chunk
C20_Witness ==
    /\ pc = "await"
    /\ Len(out) > 0
    /\ FindLast(received, LF) > 0
    /\ Len(buffer) > MaxChunk
    /\ pos < Len(body)

\* the text of the 2xx response of the last call
LastText == FromUtf8Lossy(Body(last.response))

\* the last entry of the result of the last call
LastEntry == last.result.value[Len(last.result.value)]

\* C21: stream_events and q honour a last line with no newline after it: when
\* every non-blank line of a 2xx body is a valid record and the body ends in
\* a record with no newline, the result has one entry for each record and its
\* last entry is that record.
C21_UnterminatedLastLineHonoured ==
    /\ ( /\ BatchSuccess("stream_events")
         /\ ~IsBlank(Residue(LastText))
         /\ \A n \in 1..Len(NonBlankLines(LastText)) :
               FromStrCloudEvent(NonBlankLines(LastText)[n]).ok )
       => /\ last.result.kind = "Ok"
          /\ Len(last.result.value) = Len(NonBlankLines(LastText))
          /\ LastEntry = FromStrCloudEvent(Residue(LastText))
    /\ \A op \in {"q", "query_events"} :
         ( /\ BatchSuccess(op)
           /\ ~IsBlank(Residue(LastText))
           /\ \A n \in 1..Len(NonBlankLines(LastText)) :
                 FromStrValue(NonBlankLines(LastText)[n]).ok )
         => /\ last.result.kind = "Ok"
            /\ Len(last.result.value) = Len(NonBlankLines(LastText))
            /\ LastEntry = FromStrValue(Residue(LastText))

\* stream_events on two records, the second with no newline after it
C21_Witness ==
    /\ BatchSuccess("stream_events")
    /\ Body(last.response) = EventBytes2 \o <<LF>> \o EventBytes1
    /\ last.result.kind = "Ok"
    /\ Len(last.result.value) = 2
    /\ LastEntry = FromStrCloudEvent(FromUtf8Lossy(EventBytes1))

\* a line that live observation treats as a heartbeat or as framed by "data: "
HeartbeatOrFramed(line) ==
    \/ IsHeartbeatText(JsonStr(Trim(line)))
    \/ StartsWith(line, DataPrefix)

\* C22: stream_events has neither the heartbeat filter nor the removal of the
\* "data: " prefix: a 2xx body with a heartbeat line or a line that starts
\* with "data: " makes the call return a decode error and nothing else.  In
\* observe_events a heartbeat line of the text received, framed or not,
\* yields no item, and a framed event yields that event.
C22_BatchHasNoFilters ==
    BatchSuccess("stream_events") =>
      /\ \A lines \in {NonBlankLines(LastText)} :
            (\E n \in 1..Len(lines) : HeartbeatOrFramed(lines[n]))
               => last.result = Failure("JsonError")
      /\ \A j \in Newlines(received) :
            \A line \in {Trim(RawLine(received, j))} :
               /\ IsHeartbeatText(JsonStr(line)) => ItemsAt(j) = {}
               /\ StartsWith(line, DataPrefix) =>
                    \A r \in {FromStrCloudEvent(JsonStr(line))} :
                       r.ok => SeenAll(YieldedAt(j)) = << <<"Ok", r.event>> >>

\* the body "data: {event}\n{heartbeat}\n": observed, it gives the event and
\* nothing else; fetched by stream_events, a decode error
C22_Witness ==
    /\ CleanEnd
    /\ body = DataPrefix \o EventBytes1 \o <<LF>> \o HeartbeatBytes \o <<LF>>
    /\ SeenAll(out) = << <<"Ok", FromStrCloudEvent(FromUtf8Lossy(EventBytes1)).event>> >>
    /\ BatchSuccess("stream_events")
    /\ last.response = <<200, body>>
    /\ last.result = Failure("JsonError")

\* the items yielded before the last one
BeforeLast(items) == SubSeq(items, 1, Len(items) - 1)

\* C23: the item for a transport error comes after every item of the chunks
\* delivered before the failure: it is the last item, the items before it are
\* exactly the items of the lines of the text received, in their order, and
\* what the buffer held with no newline at the failure is still there and has
\* no item.
C23_ErrorAfterEarlierItems ==
    HasFailed =>
      /\ out[Len(out)].kind = "RequestError"
      /\ \A i \in 1..(Len(out) - 1) : out[i].kind /= "RequestError"
      /\ BeforeLast(out) = AllItems(received, 0)
      /\ \A i \in 1..(Len(out) - 1) : out[i].at \in Newlines(received)
      /\ buffer = Residue(received)

\* the transport fails after an event line and a whole event with no newline
\* after it have arrived: the event of the line, then the error, and nothing
\* for the event in the buffer
C23_Witness ==
    /\ pc = "done"
    /\ HasFailed
    /\ Len(out) = 2
    /\ out[1].kind = "Ok"
    /\ pos = Len(body)
    /\ FromStrCloudEvent(buffer).ok

=============================================================================
